---- MODULE Spec2Model ----
(***************************************************************************)
(* Model of scripts/generate_embeddings.py: a linear batch pipeline        *)
(*   load edges -> build graph -> random walks -> Word2Vec -> extract ->   *)
(*   save                                                                  *)
(* The library calls (pandas, stellargraph, gensim) are modelled by what   *)
(* they do on the values this script hands them.                           *)
(***************************************************************************)
EXTENDS Integers, Sequences, FiniteSets, TLC

VARIABLES args, rand, pc, edges, graph, walks, model, embeddings, outfile,
          stdout, exitStatus, traceback, started

vars == <<args, rand, pc, edges, graph, walks, model, embeddings, outfile,
          stdout, exitStatus, traceback, started>>

(***************************************************************************)
(* Bounds of the model                                                     *)
(***************************************************************************)
MaxRows == 2
MaxWalkLength == 2
MaxNumWalks == 2

\* text of one field of the input file; "" is an empty field, "7" parses as a number
Cells == {"", "A", "7"}
NumericCells == {"7"}
\* the raw draws of the uniform sampler, repeated with this period
RandomStreams == {<<0, 1>>, <<1, 0>>, <<1, 1>>}

(***************************************************************************)
(* argparse defaults (lines 20, 23, 24)                                         *)
(***************************************************************************)
DefaultDimensions == 128
DefaultWindowSize == 10
DefaultEpochs == 20
\* Word2Vec(min_count=1), line 77
min_count == 1

DimensionValues == {-1, 0, 2, DefaultDimensions}

(***************************************************************************)
(* Generic helpers                                                         *)
(***************************************************************************)
Range(s) == {s[i] : i \in 1..Len(s)}

SeqsUpTo(S, n) == UNION {[1..k -> S] : k \in 0..n}

\* the elements of s in order of first appearance (pd.unique / drop_duplicates)
Unique(s) ==
    LET F[i \in 0..Len(s)] ==
            IF i = 0 THEN <<>>
            ELSE IF \E j \in 1..(i - 1) : s[j] = s[i] THEN F[i - 1]
                 ELSE Append(F[i - 1], s[i])
    IN  F[Len(s)]

Count(s, x) == Cardinality({i \in 1..Len(s) : s[i] = x})

(***************************************************************************)
(* 1. Load and process data (lines 33-38)                                  *)
(***************************************************************************)
\* dtype pandas infers for one column of the file
ColumnDtype(cells) ==
    IF \A i \in 1..Len(cells) : cells[i] = "" \/ cells[i] \in NumericCells
    THEN IF \E i \in 1..Len(cells) : cells[i] = "" THEN "float64" ELSE "int64"
    ELSE "object"

ParseCell(c, dtype) == [isna |-> (c = ""), dtype |-> dtype, raw |-> c]

\* pd.read_csv(args.input, sep='\t', header=None, names=['source', 'target'])
read_csv(rows) ==
    LET sdt == ColumnDtype([i \in 1..Len(rows) |-> rows[i][1]])
        tdt == ColumnDtype([i \in 1..Len(rows) |-> rows[i][2]])
    IN  [i \in 1..Len(rows) |->
            [source |-> ParseCell(rows[i][1], sdt),
             target |-> ParseCell(rows[i][2], tdt)]]

\* Series.astype(str) on one value
astype_str(v) ==
    IF v.isna THEN "nan"
    ELSE IF v.dtype = "float64" THEN v.raw \o ".0"
    ELSE v.raw

\* variant: no row is dropped for a missing value
dropna_KeepAll(df) == df

\* DataFrame.dropna(): rows with a missing value in either column go
dropna(df) == SelectSeq(df, LAMBDA r : ~r.source.isna /\ ~r.target.isna)

\* variant: no row is dropped as a duplicate
drop_duplicates_KeepAll(df) == df

\* variant: (a, b) and (b, a) count as the same row
drop_duplicates_Unordered(df) ==
    LET Same(r, q) == \/ r = q
                      \/ (astype_str(r.source) = astype_str(q.target)
                            /\ astype_str(r.target) = astype_str(q.source))
        F[i \in 0..Len(df)] ==
            IF i = 0 THEN <<>>
            ELSE IF \E j \in 1..(i - 1) : Same(df[j], df[i]) THEN F[i - 1]
                 ELSE Append(F[i - 1], df[i])
    IN  F[Len(df)]

\* DataFrame.drop_duplicates(): the first of equal (source, target) rows stays
drop_duplicates(df) == Unique(df)

\* lines 33-36 together: the edge frame handed to the graph builder
LoadEdges(rows) ==
    LET df == drop_duplicates(dropna(read_csv(rows)))
    IN  [i \in 1..Len(df) |-> <<astype_str(df[i].source), astype_str(df[i].target)>>]

(***************************************************************************)
(* 2. Create graph (lines 46-47)                                           *)
(***************************************************************************)
\* variant: only the source column gives nodes
StellarGraph_SourcesOnly(e) ==
    [nodes |-> Unique([i \in 1..Len(e) |-> e[i][1]]), edges |-> e]

\* StellarGraph(edges=edges): undirected; the nodes are inferred from the two
\* edge columns, every row of the frame is kept as an edge
StellarGraph(e) ==
    [nodes |-> Unique([i \in 1..Len(e) |-> e[i][1]] \o [i \in 1..Len(e) |-> e[i][2]]),
     edges |-> e]

number_of_nodes(g) == Len(g.nodes)
number_of_edges(g) == Len(g.edges)

\* graph.neighbor_arrays(node) of an undirected graph: the far end of every
\* edge at the node, a self loop counted once
neighbor_arrays(g, node) ==
    LET out == SelectSeq(g.edges, LAMBDA e : e[1] = node)
        in  == SelectSeq(g.edges, LAMBDA e : e[2] = node /\ e[1] # node)
    IN  [i \in 1..Len(out) |-> out[i][2]] \o [i \in 1..Len(in) |-> in[i][1]]

(***************************************************************************)
(* 3. Generate random walks (lines 55-62)                                  *)
(***************************************************************************)
\* the k-th raw draw of the sampler
Draw(rs, k) == rs[(k % Len(rs)) + 1]

\* one step of the walk: with p = q = 1.0 every neighbour has the same weight
Choice(rs, k, neighbours) == neighbours[(Draw(rs, k) % Len(neighbours)) + 1]

\* the inner loop of BiasedRandomWalk.run: at most length - 1 steps from the
\* root, stopping where the current node has no neighbour
RECURSIVE ExtendWalk(_, _, _, _, _)
ExtendWalk(g, rs, walk, steps, k) ==
    LET neighbours == neighbor_arrays(g, walk[Len(walk)])
    IN  IF steps <= 0 \/ Len(neighbours) = 0
        THEN [walk |-> walk, k |-> k]
        ELSE ExtendWalk(g, rs, Append(walk, Choice(rs, k, neighbours)), steps - 1, k + 1)

\* BiasedRandomWalk(graph).run(nodes, length, n, p=1.0, q=1.0): n walks rooted
\* at each node, in node order
RECURSIVE RunWalks(_, _, _, _, _, _, _)
RunWalks(g, rs, nodes, length, n, i, k) ==
    IF i >= Len(nodes) * n THEN <<>>
    ELSE LET w == ExtendWalk(g, rs, <<nodes[(i \div n) + 1]>>, length - 1, k)
         IN  <<w.walk>> \o RunWalks(g, rs, nodes, length, n, i + 1, w.k)

\* variant: length counts the steps, not the nodes, of a walk
BiasedRandomWalk_run_Steps(g, rs, nodes, length, n) ==
    RunWalks(g, rs, nodes, length + 1, n, 0, 0)

BiasedRandomWalk_run(g, rs, nodes, length, n) == RunWalks(g, rs, nodes, length, n, 0, 0)

\* run() rejects a walk length or a walk count below 1 with a ValueError
WalkParamsValid(length, n) == length >= 1 /\ n >= 1

(***************************************************************************)
(* 4. Train Word2Vec model (lines 70-81)                                   *)
(***************************************************************************)
\* str(node) on a node identifier, which is text already (lines 35-36)
str(node) == node

\* [[str(node) for node in walk] for walk in walks]
StrWalks(ws) == [i \in 1..Len(ws) |-> [j \in 1..Len(ws[i]) |-> str(ws[i][j])]]

Tokens(sentences) == UNION {Range(sentences[i]) : i \in 1..Len(sentences)}

Frequency(sentences, t) ==
    LET F[i \in 0..Len(sentences)] ==
            IF i = 0 THEN 0 ELSE F[i - 1] + Count(sentences[i], t)
    IN  F[Len(sentences)]

\* variant: a token has to be seen more than min_count times
Vocabulary_Strict(sentences, minCount) ==
    {t \in Tokens(sentences) : Frequency(sentences, t) > minCount}

\* the vocabulary Word2Vec builds: the tokens seen at least min_count times
Vocabulary(sentences, minCount) ==
    {t \in Tokens(sentences) : Frequency(sentences, t) >= minCount}

\* variant: the window size is passed as the vector size
VectorSize_Window(a) == a.window_size

\* the vector size the trainer is given (vector_size=args.dimensions)
VectorSize(a) == a.dimensions

\* the trained mapping model.wv: one vector of vector_size numbers per
\* vocabulary token (the numbers themselves come out of the random stream)
Word2Vec(sentences, vector_size, rs) ==
    [t \in Vocabulary(sentences, min_count) |->
        [i \in 1..vector_size |-> Draw(rs, Frequency(sentences, t) + i)]]

\* what the constructor can do: it raises on an empty vocabulary and on a
\* negative vector size; whether a size of 0 trains is left open
TrainOutcomes(sentences, vector_size) ==
    IF Vocabulary(sentences, min_count) = {} THEN {"RuntimeError"}
    ELSE IF vector_size < 0 THEN {"ValueError"}
    ELSE IF vector_size = 0 THEN {"ok", "ValueError"}
    ELSE {"ok", "MemoryError"}

(***************************************************************************)
(* 5. Extract embeddings (lines 85-87)                                     *)
(***************************************************************************)
\* model.wv[key]: a KeyError where the key is not in the mapping
HasVector(wv, key) == key \in DOMAIN wv

\* the dict filled by the loop, in graph.nodes() order, up to the first
\* node without a vector
ExtractEmbeddings(nodes, wv) ==
    LET F[i \in 0..Len(nodes)] ==
            IF i = 0 THEN <<>>
            ELSE IF Len(F[i - 1]) = i - 1 /\ HasVector(wv, str(nodes[i]))
                 THEN Append(F[i - 1], [key |-> nodes[i], value |-> wv[str(nodes[i])]])
                 ELSE F[i - 1]
    IN  F[Len(nodes)]

(***************************************************************************)
(* 6. Save results (lines 91-93)                                           *)
(***************************************************************************)
MaxLen(d) ==
    IF d = <<>> THEN 0
    ELSE CHOOSE m \in {Len(d[i].value) : i \in 1..Len(d)} :
            \A i \in 1..Len(d) : Len(d[i].value) <= m

\* pd.DataFrame.from_dict(embeddings, orient='index') with index.name set:
\* one row per key, one column per vector position
DataFrame_from_dict(d) ==
    [index_name |-> "gene_id",
     columns    |-> [i \in 1..MaxLen(d) |-> i - 1],
     rows       |-> [i \in 1..Len(d) |-> [gene_id |-> d[i].key, values |-> d[i].value]]]

NoTable == [index_name |-> "", columns |-> <<>>, rows |-> <<>>]

\* the output path before the run: nothing of this run is there
NoFile == [written |-> FALSE, complete |-> FALSE, table |-> NoTable]

\* embeddings_df.to_csv(args.output)
to_csv(df) == [written |-> TRUE, complete |-> TRUE, table |-> df]

\* what a write that raises can leave at the path: nothing, or the start of
\* the table
FailedWrites(df) ==
    {NoFile, [written |-> TRUE, complete |-> FALSE, table |-> [df EXCEPT !.rows = <<>>]]}

(***************************************************************************)
(* The run: main(), lines 15-96                                            *)
(***************************************************************************)
StageOrder == <<"load", "graph", "walks", "train", "extract", "save">>

InputFiles ==
    {[exists |-> FALSE, rows |-> <<>>]} \cup
    {[exists |-> TRUE, rows |-> r] : r \in SeqsUpTo(Cells \X Cells, MaxRows)}

\* parser.parse_args(), lines 17-26
ArgValues ==
    [input       : InputFiles,
     dimensions  : DimensionValues,
     walk_length : 0..MaxWalkLength,
     num_walks   : 0..MaxNumWalks,
     window_size : {DefaultWindowSize},
     epochs      : {DefaultEpochs}]

Init ==
    /\ args \in ArgValues
    /\ rand \in RandomStreams
    /\ pc = "load"
    /\ edges = <<>>
    /\ graph = [nodes |-> <<>>, edges |-> <<>>]
    /\ walks = <<>>
    /\ model = <<>>
    /\ embeddings = <<>>
    /\ outfile = NoFile
    /\ stdout = <<>>
    /\ exitStatus = -1
    /\ traceback = FALSE
    /\ started = <<>>

ErrorMessage(stage) ==
    CASE stage = "load"  -> "Error loading data"
      [] stage = "graph" -> "Error creating graph"
      [] stage = "walks" -> "Error generating walks"

\* variant: the exception is swallowed and the script ends normally
Uncaught_Swallowed(before) ==
    /\ stdout' = before
    /\ exitStatus' = 0
    /\ traceback' = FALSE
    /\ pc' = "exit"

\* an exception no handler encloses (lines 68-96): the interpreter prints the
\* trace and ends the process with status 1
Uncaught(before) ==
    /\ stdout' = before
    /\ exitStatus' = 1
    /\ traceback' = TRUE
    /\ pc' = "exit"

\* variant: the stage has no handler
Caught_NoHandler(stage, before) == Uncaught(before)

\* variant: the handler prints and does not exit
Caught_NoExit(stage, before) ==
    /\ stdout' = before \o << <<ErrorMessage(stage), <<>> >> >>
    /\ pc' = StageOrder[(CHOOSE i \in 1..Len(StageOrder) : StageOrder[i] = stage) + 1]
    /\ UNCHANGED <<exitStatus, traceback>>

\* except Exception as e: print(f"Error ...: {e}"); sys.exit(1)
\* (lines 39-41, 48-50, 64-66)
Caught(stage, before) ==
    /\ stdout' = before \o << <<ErrorMessage(stage), <<>> >> >>
    /\ exitStatus' = 1
    /\ traceback' = FALSE
    /\ pc' = "exit"

Enter(stage) == started' = Append(started, stage)

\* what the read can do on this input path
LoadOutcomes(input) ==
    IF ~input.exists THEN {"FileNotFoundError"}
    ELSE IF input.rows = <<>> THEN {"EmptyDataError"}
    ELSE {"ok", "MemoryError"}

\* lines 31-41
Load ==
    /\ pc = "load"
    /\ Enter("load")
    /\ \E outcome \in LoadOutcomes(args.input) :
         LET before == Append(stdout, <<"Loading data...", <<>> >>) IN
         IF outcome = "ok"
         THEN /\ edges' = LoadEdges(args.input.rows)
              /\ stdout' = Append(before, <<"Total unique edges", <<Len(edges')>> >>)
              /\ pc' = "graph"
              /\ UNCHANGED <<exitStatus, traceback>>
         ELSE /\ Caught("load", before)
              /\ UNCHANGED edges
    /\ UNCHANGED <<args, rand, graph, walks, model, embeddings, outfile>>

\* lines 44-50
CreateGraph ==
    /\ pc = "graph"
    /\ Enter("graph")
    /\ \E outcome \in {"ok", "MemoryError"} :
         LET before == Append(stdout, <<"Creating graph...", <<>> >>) IN
         IF outcome = "ok"
         THEN /\ graph' = StellarGraph(edges)
              /\ stdout' = Append(before, <<"Graph created",
                                   <<number_of_nodes(graph'), number_of_edges(graph')>> >>)
              /\ pc' = "walks"
              /\ UNCHANGED <<exitStatus, traceback>>
         ELSE /\ Caught("graph", before)
              /\ UNCHANGED graph
    /\ UNCHANGED <<args, rand, edges, walks, model, embeddings, outfile>>

WalkOutcomes(length, n) ==
    IF WalkParamsValid(length, n) THEN {"ok", "MemoryError"} ELSE {"ValueError"}

\* lines 53-66
GenerateWalks ==
    /\ pc = "walks"
    /\ Enter("walks")
    /\ \E outcome \in WalkOutcomes(args.walk_length, args.num_walks) :
         LET before == Append(stdout, <<"Generating random walks...", <<>> >>) IN
         IF outcome = "ok"
         THEN /\ walks' = BiasedRandomWalk_run(graph, rand, graph.nodes,
                                               args.walk_length, args.num_walks)
              /\ stdout' = Append(before, <<"Generated walks", <<Len(walks')>> >>)
              /\ pc' = "train"
              /\ UNCHANGED <<exitStatus, traceback>>
         ELSE /\ Caught("walks", before)
              /\ UNCHANGED walks
    /\ UNCHANGED <<args, rand, edges, graph, model, embeddings, outfile>>

\* lines 69-81
Train ==
    /\ pc = "train"
    /\ Enter("train")
    /\ LET str_walks == StrWalks(walks)
           before == Append(stdout, <<"Training Word2Vec model...", <<>> >>)
       IN  \E outcome \in TrainOutcomes(str_walks, VectorSize(args)) :
             IF outcome = "ok"
             THEN /\ model' = Word2Vec(str_walks, VectorSize(args), rand)
                  /\ stdout' = before
                  /\ pc' = "extract"
                  /\ UNCHANGED <<exitStatus, traceback>>
             ELSE /\ Uncaught(before)
                  /\ UNCHANGED model
    /\ UNCHANGED <<args, rand, edges, graph, walks, embeddings, outfile>>

\* lines 84-87
Extract ==
    /\ pc = "extract"
    /\ Enter("extract")
    /\ embeddings' = ExtractEmbeddings(graph.nodes, model)
    /\ LET before == Append(stdout, <<"Extracting embeddings...", <<>> >>) IN
       IF Len(embeddings') = Len(graph.nodes)
       THEN /\ stdout' = before
            /\ pc' = "save"
            /\ UNCHANGED <<exitStatus, traceback>>
       ELSE Uncaught(before)
    /\ UNCHANGED <<args, rand, edges, graph, walks, model, outfile>>

\* lines 90-96, and the normal end of the script
Save ==
    /\ pc = "save"
    /\ Enter("save")
    /\ LET embeddings_df == DataFrame_from_dict(embeddings)
           before == Append(stdout, <<"Saving embeddings", <<>> >>)
       IN  \E outcome \in {"ok", "OSError"} :
             IF outcome = "ok"
             THEN /\ outfile' = to_csv(embeddings_df)
                  /\ stdout' = before \o
                        << <<"Embeddings saved! Shape",
                             <<Len(embeddings_df.rows), Len(embeddings_df.columns)>> >>,
                           <<"Number of genes", <<Len(embeddings)>> >> >>
                  /\ exitStatus' = 0
                  /\ pc' = "exit"
                  /\ UNCHANGED traceback
             ELSE /\ outfile' \in FailedWrites(embeddings_df)
                  /\ Uncaught(before)
    /\ UNCHANGED <<args, rand, edges, graph, walks, model, embeddings>>

Next == Load \/ CreateGraph \/ GenerateWalks \/ Train \/ Extract \/ Save

Spec == Init /\ [][Next]_vars

(***************************************************************************)
(* Vocabulary of the properties                                            *)
(***************************************************************************)
Last(s) == s[Len(s)]
Front(s) == SubSeq(s, 1, Len(s) - 1)
IsPrefix(s, t) == Len(s) <= Len(t) /\ SubSeq(t, 1, Len(s)) = s

Entered(stage) == stage \in Range(started)
StageIndex(stage) == CHOOSE i \in 1..Len(StageOrder) : StageOrder[i] = stage
\* the stage has run to its end without raising
Completed(stage) ==
    \/ Len(started) > StageIndex(stage)
    \/ Len(started) = StageIndex(stage) /\ (pc # "exit" \/ exitStatus = 0)
Succeeded == pc = "exit" /\ exitStatus = 0
\* the run ended inside this stage
FailedIn(stage) == pc = "exit" /\ exitStatus # 0 /\ Last(started) = stage

Messages == {stdout[i][1] : i \in 1..Len(stdout)}
Reported(text) == {stdout[i][2] : i \in {j \in 1..Len(stdout) : stdout[j][1] = text}}

\* the identifiers of the loaded edge collection
EdgeIdentifiers == {edges[i][1] : i \in 1..Len(edges)} \cup {edges[i][2] : i \in 1..Len(edges)}
OutputIds == {outfile.table.rows[i].gene_id : i \in 1..Len(outfile.table.rows)}

FileRows == args.input.rows
IsComplete(row) == row[1] # "" /\ row[2] # ""
\* the complete rows of the file as the loader types them, before any row
\* is dropped as a duplicate
CompletePairs ==
    LET typed == read_csv(FileRows)
    IN  {<<astype_str(typed[i].source), astype_str(typed[i].target)>> :
            i \in {j \in 1..Len(FileRows) : IsComplete(FileRows[j])}}

(***************************************************************************)
(* Properties                                                              *)
(***************************************************************************)

\* C1: after a successful run the gene_id rows of the output table are
\* exactly the identifiers that occur as source or target in the loaded
\* (null-filtered, deduplicated) edge collection, one row for each.
C1_OutputRowsAreEdgeIdentifiers ==
    Succeeded =>
        /\ OutputIds = EdgeIdentifiers
        /\ Len(outfile.table.rows) = Cardinality(EdgeIdentifiers)
        /\ outfile.table.index_name = "gene_id"

C1_Witness ==
    /\ Succeeded
    /\ Cardinality(EdgeIdentifiers) = 2
    /\ Len(edges) = 2

\* C2: the walk stage yields num_walks walks rooted at every node, so
\* num_walks * (number of nodes) walks in all; no walk is longer than
\* walk_length and a shorter one ends at a node without neighbours.
C2_WalkCountAndLength ==
    Completed("walks") =>
        /\ Len(walks) = args.num_walks * number_of_nodes(graph)
        /\ \A n \in Range(graph.nodes) :
              Cardinality({i \in 1..Len(walks) : walks[i][1] = n}) = args.num_walks
        /\ \A i \in 1..Len(walks) :
              /\ Len(walks[i]) >= 1
              /\ Len(walks[i]) <= args.walk_length
              /\ Len(walks[i]) < args.walk_length
                    => neighbor_arrays(graph, Last(walks[i])) = <<>>
        /\ Reported("Generated walks") = {<<args.num_walks * number_of_nodes(graph)>>}

C2_Witness ==
    /\ Completed("walks")
    /\ args.num_walks = 2
    /\ args.walk_length = 2
    /\ number_of_nodes(graph) = 2
    /\ \E i \in 1..Len(walks) : walks[i][2] # walks[i][1]

\* C3: a run that ends inside the load, graph or walk stage has printed
\* that stage's message last and exits with status 1 without a trace; a
\* missing input file ends it in the load stage.
C3_EarlyFailuresAreCaught ==
    /\ FailedIn("load") =>
          exitStatus = 1 /\ ~traceback /\ Last(stdout)[1] = "Error loading data"
    /\ FailedIn("graph") =>
          exitStatus = 1 /\ ~traceback /\ Last(stdout)[1] = "Error creating graph"
    /\ FailedIn("walks") =>
          exitStatus = 1 /\ ~traceback /\ Last(stdout)[1] = "Error generating walks"
    /\ (Entered("load") /\ ~args.input.exists) => FailedIn("load")

C3_Witness ==
    /\ FailedIn("walks")
    /\ args.walk_length = 0
    /\ "Graph created" \in Messages

\* C4: a file whose last row repeats an earlier row loads to the same edge
\* collection, and reports the same edge count, as the file without that
\* row (so any number of appended duplicates changes nothing).
C4_DedupIdempotent ==
    (Completed("load") /\ Len(FileRows) >= 2 /\ Last(FileRows) \in Range(Front(FileRows))) =>
        /\ edges = LoadEdges(Front(FileRows))
        /\ Reported("Total unique edges") = {<<Len(LoadEdges(Front(FileRows)))>>}

C4_Witness ==
    /\ Completed("load")
    /\ FileRows = << <<"A", "7">>, <<"A", "7">> >>
    /\ Len(edges) = 1
    /\ Reported("Total unique edges") = {<<1>>}

\* C5: a row with a missing field gives no edge and no node: every edge is
\* a complete row of the file, no node or output row has an empty or null
\* identifier, and every node occurs in some complete row.
C5_IncompleteRowsDropped ==
    LET complete == CompletePairs
        FromCompleteRow(n) == \E e \in complete : n \in {e[1], e[2]}
    IN  /\ Completed("load") =>
              /\ Range(edges) \subseteq complete
              /\ Len(edges) <= Cardinality({i \in 1..Len(FileRows) : IsComplete(FileRows[i])})
        /\ Completed("graph") =>
              /\ Range(graph.edges) \subseteq complete
              /\ \A n \in Range(graph.nodes) : n \notin {"", "nan"} /\ FromCompleteRow(n)
        /\ \A n \in OutputIds : n \notin {"", "nan"} /\ FromCompleteRow(n)

C5_Witness ==
    /\ Succeeded
    /\ FileRows = << <<"A", "">>, <<"A", "7">> >>
    /\ OutputIds = {"A", "7.0"}

\* C6: after a successful run every row of the output table holds exactly
\* args.dimensions numbers, and the table has that many value columns.
C6_VectorsHaveDimensions ==
    Succeeded =>
        /\ Len(outfile.table.columns) = args.dimensions
        /\ \A i \in 1..Len(outfile.table.rows) :
              /\ Len(outfile.table.rows[i].values) = args.dimensions
              /\ \A j \in 1..Len(outfile.table.rows[i].values) :
                    outfile.table.rows[i].values[j] \in Int

C6_Witness ==
    /\ Succeeded
    /\ args.dimensions = DefaultDimensions
    /\ Len(outfile.table.rows) = 2

\* C7: the process ends with status 0 exactly when all six stages ran and
\* the output file was written whole; a run that ends inside training,
\* extraction or saving ends with a trace and a non-zero status, with no
\* stage message printed.
C7_ExitStatus ==
    /\ pc # "exit" => exitStatus = -1
    /\ pc = "exit" =>
          /\ (exitStatus = 0) <=> (started = StageOrder /\ outfile.written /\ outfile.complete)
          /\ (Last(started) \in {"train", "extract", "save"} /\ ~outfile.complete) =>
                /\ exitStatus # 0
                /\ traceback
                /\ Messages \cap {"Error loading data", "Error creating graph",
                                  "Error generating walks"} = {}

C7_Witness ==
    /\ FailedIn("train")
    /\ traceback
    /\ Len(walks) > 0
    /\ args.dimensions < 0

\* C8: the stages start in the order load, graph, walks, train, extract,
\* save, each after the one before it ran to its end; a failed run has
\* stopped for good in the stage that failed, and it has written an output
\* file only if that stage is the save itself.
C8_StageOrder ==
    /\ IsPrefix(started, StageOrder)
    /\ \A i \in 1..Len(started) : i < Len(started) => Completed(StageOrder[i])
    /\ pc # "exit" => /\ Len(started) < Len(StageOrder)
                      /\ pc = StageOrder[Len(started) + 1]
                      /\ ~traceback
                      /\ \A m \in Messages : m \notin {"Error loading data",
                              "Error creating graph", "Error generating walks"}
    /\ pc = "exit" => ~ENABLED Next
    /\ (pc # "exit" \/ (exitStatus # 0 /\ Last(started) # "save")) => ~outfile.written

C8_Witness ==
    /\ FailedIn("graph")
    /\ started = <<"load", "graph">>
    /\ Len(edges) > 0

\* C9: once training has run, every identifier that occurs in a walk and
\* every node of the graph has a vector, and no run ends inside the
\* extraction loop.
C9_EveryNodeHasVector ==
    /\ Completed("train") =>
          /\ \A t \in Tokens(StrWalks(walks)) : HasVector(model, t)
          /\ \A n \in Range(graph.nodes) : HasVector(model, str(n))
    /\ ~FailedIn("extract")
    /\ Completed("extract") =>
          [i \in 1..Len(embeddings) |-> embeddings[i].key] = graph.nodes

C9_Witness ==
    /\ Completed("extract")
    /\ args.num_walks = 1
    /\ number_of_nodes(graph) = 2
    /\ \E n \in Range(graph.nodes) : Frequency(StrWalks(walks), n) = 1

\* C10: the loader keeps (a, b) and (b, a) as two edges and one of two equal
\* rows: the loaded edges are the distinct ordered pairs of the complete
\* rows, that number is the count reported, and the graph keeps them all.
C10_OrderedPairDedup ==
    LET complete == CompletePairs IN
    /\ Completed("load") =>
          /\ Range(edges) = complete
          /\ Len(edges) = Cardinality(complete)
          /\ Reported("Total unique edges") = {<<Cardinality(complete)>>}
          /\ \A a, b \in Cells \ {""} :
                /\ (a # b /\ FileRows = << <<a, b>>, <<b, a>> >>) => Len(edges) = 2
                /\ FileRows = << <<a, b>>, <<a, b>> >> => Len(edges) = 1
    /\ Completed("graph") => number_of_edges(graph) = Cardinality(complete)

C10_Witness ==
    /\ Completed("graph")
    /\ FileRows = << <<"A", "7">>, <<"7", "A">> >>
    /\ edges = << <<"A", "7">>, <<"7", "A">> >>
    /\ number_of_edges(graph) = 2
    /\ Reported("Total unique edges") = {<<2>>}

====
